---------------------------- MODULE Spec2Model ----------------------------
(***************************************************************************)
(* ECIES (src/ECIES.cpp): shared-secret derivation, HMAC-then-CBC envelope *)
(* encryption and its decryption.  CKey::getECIESSecret, makeHMAC,         *)
(* CKey::encryptECIES and CKey::decryptECIES are translated statement by   *)
(* statement; the OpenSSL primitives they call are modelled by what they   *)
(* do (buffering of EVP_*Update, PKCS padding of EVP_*Final, CBC chaining) *)
(* over small stand-ins for AES-256, SHA-256/HMAC and the EC group.        *)
(***************************************************************************)
EXTENDS Integers, Sequences, FiniteSets, TLC

(***************************************************************************)
(* Program constants (the #defines of ECIES.cpp).                          *)
(***************************************************************************)
ECIES_KEY_LENGTH == 32
ECIES_ENC_KEY_SIZE == 32
ECIES_ENC_BLK_SIZE == 16
ECIES_HMAC_SIZE == 32

(***************************************************************************)
(* Bounds of the model.                                                    *)
(***************************************************************************)
\* plaintext lengths run over 0..MaxLen (restricted to the residues next to
\* a cipher-block boundary, see PlainLens)
MaxLen == 16
\* private scalars run over 2..MaxScalar
MaxScalar == 3

(***************************************************************************)
(* Bytes.                                                                  *)
(***************************************************************************)
RECURSIVE XorBits(_, _, _)
XorBits(a, b, n) ==
  IF n = 0 THEN 0
  ELSE ((a + b) % 2) + 2 * XorBits(a \div 2, b \div 2, n - 1)

NibXor == [a \in 0..15 |-> [b \in 0..15 |-> XorBits(a, b, 4)]]

Xor(x, y) == 16 * NibXor[x \div 16][y \div 16] + NibXor[x % 16][y % 16]

Pow2 == [b \in 0..7 |-> IF b = 0 THEN 1 ELSE IF b = 1 THEN 2 ELSE IF b = 2 THEN 4
                        ELSE IF b = 3 THEN 8 ELSE IF b = 4 THEN 16
                        ELSE IF b = 5 THEN 32 ELSE IF b = 6 THEN 64 ELSE 128]

\* byte sequence s with bit `bit` (0-based, bit 0 of byte 1 first) inverted
FlipBit(s, bit) ==
  [i \in 1..Len(s) |-> IF i = (bit \div 8) + 1 THEN Xor(s[i], Pow2[bit % 8]) ELSE s[i]]

Reverse(s) == [i \in 1..Len(s) |-> s[Len(s) + 1 - i]]

Zeros(n) == [i \in 1..n |-> 0]

\* bytes from..to of s (1-based, inclusive); empty when from > to
Slice(s, from, to) == IF from > to THEN <<>> ELSE SubSeq(s, from, to)

(***************************************************************************)
(* Stand-in for the block cipher behind ECIES_ENC_ALGO (AES-256): a keyed  *)
(* permutation of 16-byte blocks.  Two chained substitution passes, one in *)
(* each direction, so every output byte depends on every input byte.       *)
(***************************************************************************)
SBox(x) == (x * 167 + 13) % 256
InvSBox(y) == ((y + 243) * 23) % 256

RECURSIVE ChainPass(_, _, _, _)
ChainPass(b, k, off, acc) ==
  IF Len(acc) = Len(b) THEN acc
  ELSE LET j == Len(acc) + 1
           prev == IF j = 1 THEN 0 ELSE acc[j - 1]
       IN ChainPass(b, k, off, Append(acc, SBox((Xor(b[j], prev) + k[off + j]) % 256)))

InvChainPass(y, k, off) ==
  [j \in 1..Len(y) |->
      Xor((InvSBox(y[j]) + 256 - k[off + j]) % 256, IF j = 1 THEN 0 ELSE y[j - 1])]

BlockEncrypt(k, b) ==
  Reverse(ChainPass(Reverse(ChainPass(b, k, 0, <<>>)), k, ECIES_ENC_BLK_SIZE, <<>>))

BlockDecrypt(k, c) ==
  InvChainPass(Reverse(InvChainPass(Reverse(c), k, ECIES_ENC_BLK_SIZE)), k, 0)

XorSeq(a, b) == [i \in 1..Len(a) |-> Xor(a[i], b[i])]

\* the cipher's do_cipher in CBC mode over whole blocks: data is a multiple
\* of the block size, iv the chaining value; out is the output and iv the
\* new chaining value (the last ciphertext block)
RECURSIVE CbcEncryptOut(_, _, _)
CbcEncryptOut(k, iv, data) ==
  IF Len(data) = 0 THEN <<>>
  ELSE LET c == BlockEncrypt(k, XorSeq(SubSeq(data, 1, ECIES_ENC_BLK_SIZE), iv))
       IN c \o CbcEncryptOut(k, c, Slice(data, ECIES_ENC_BLK_SIZE + 1, Len(data)))

RECURSIVE CbcDecryptOut(_, _, _)
CbcDecryptOut(k, iv, data) ==
  IF Len(data) = 0 THEN <<>>
  ELSE XorSeq(BlockDecrypt(k, SubSeq(data, 1, ECIES_ENC_BLK_SIZE)), iv)
       \o CbcDecryptOut(k, SubSeq(data, 1, ECIES_ENC_BLK_SIZE),
                        Slice(data, ECIES_ENC_BLK_SIZE + 1, Len(data)))

LastBlock(s) == SubSeq(s, Len(s) - ECIES_ENC_BLK_SIZE + 1, Len(s))

(***************************************************************************)
(* Stand-in for HMAC-SHA256 (ECIES_HMAC_ALGO), 32 bytes out.  The data is  *)
(* framed as length byte followed by the data (longer data is folded into  *)
(* the 31 data positions) and passed through two keyed chained passes, so  *)
(* for one key different data of up to 31 bytes never give the same tag.   *)
(***************************************************************************)
RECURSIVE FoldAt(_, _)
FoldAt(data, j) ==
  IF j > Len(data) THEN 0
  ELSE (data[j] + 7 * FoldAt(data, j + ECIES_HMAC_SIZE - 1)) % 256

HmacDigest(k, data) ==
  LET e == [i \in 1..ECIES_HMAC_SIZE |->
              IF i = 1 THEN Len(data) % 256 ELSE FoldAt(data, i - 1)]
      p1 == [i \in 1..ECIES_HMAC_SIZE |->
              SBox((e[i] + k[i] + (IF i = 1 THEN 0 ELSE 3 * e[i - 1])) % 256)]
  IN [i \in 1..ECIES_HMAC_SIZE |->
        SBox((Xor(p1[i], k[ECIES_HMAC_SIZE + 1 - i])
              + (IF i = ECIES_HMAC_SIZE THEN 0 ELSE 5 * p1[i + 1])) % 256)]

(***************************************************************************)
(* Stand-in for the EC group behind CKey: the multiplicative group modulo  *)
(* GroupP generated by GroupG; a public point is GroupG^scalar.            *)
(***************************************************************************)
GroupP == 23
GroupG == 5

RECURSIVE ModExp(_, _)
ModExp(b, e) == IF e = 0 THEN 1 ELSE (b * ModExp(b, e - 1)) % GroupP

\* ecies_key_derivation: the hash of the shared point, ECIES_KEY_LENGTH bytes
ecies_key_derivation(x) ==
  [i \in 1..ECIES_KEY_LENGTH |-> SBox((x * 29 + i * (x + 7) + i * i) % 256)]

\* ECDH_compute_key(out, len, pub_key, ecdh, KDF)
ECDH_compute_key(pubPoint, privScalar) ==
  ecies_key_derivation(ModExp(pubPoint, privScalar))

(***************************************************************************)
(* CKey objects: pkey is the EC_KEY pointer (FALSE: NULL), priv the        *)
(* private scalar (0: EC_KEY_get0_private_key returns NULL), pub the       *)
(* public point.                                                           *)
(***************************************************************************)
Scalars == 2..MaxScalar
NullKey == [pkey |-> FALSE, priv |-> 0, pub |-> 0]
PrivKey(s) == [pkey |-> TRUE, priv |-> s, pub |-> ModExp(GroupG, s)]
PubKey(s) == [pkey |-> TRUE, priv |-> 0, pub |-> ModExp(GroupG, s)]
Keys == {NullKey} \cup {PrivKey(s) : s \in Scalars} \cup {PubKey(s) : s \in Scalars}

(***************************************************************************)
(* EVP_CIPHER_CTX of a CBC cipher with padding, as the EVP layer keeps it: *)
(* key, chaining value, the partial input block buf and, when decrypting,  *)
(* the held-back last block final.                                         *)
(***************************************************************************)
NewCipherCtx(key, iv) ==
  [key |-> key, iv |-> iv, buf |-> <<>>, final |-> <<>>, final_used |-> FALSE]

\* EVP_EncryptUpdate: encrypts every whole block of buf \o in, keeps the rest
EVP_EncryptUpdate(ctx, in) ==
  LET data == ctx.buf \o in
      whole == (Len(data) \div ECIES_ENC_BLK_SIZE) * ECIES_ENC_BLK_SIZE
      c == CbcEncryptOut(ctx.key, ctx.iv, Slice(data, 1, whole))
  IN [rc |-> 1, out |-> c,
      ctx |-> [ctx EXCEPT !.iv = IF whole = 0 THEN ctx.iv ELSE LastBlock(c),
                          !.buf = Slice(data, whole + 1, Len(data))]]

\* EVP_EncryptFinal_ex: pads buf to one block with n bytes of value n
\* (n = block size - buf_len, a whole block when buf is empty)
EVP_EncryptFinal_ex(ctx) ==
  LET n == ECIES_ENC_BLK_SIZE - Len(ctx.buf)
      c == CbcEncryptOut(ctx.key, ctx.iv, ctx.buf \o [i \in 1..n |-> n])
  IN [rc |-> 1, out |-> c, ctx |-> [ctx EXCEPT !.iv = LastBlock(c), !.buf = <<>>]]

\* EVP_DecryptUpdate: decrypts every whole block of buf \o in; when no
\* partial block remains the last decrypted block is held back in final
\* (it may be the padding block), and a block held back before is output
EVP_DecryptUpdate(ctx, in) ==
  IF Len(in) = 0 THEN [rc |-> 1, out |-> <<>>, ctx |-> ctx]
  ELSE
    LET data == ctx.buf \o in
        whole == (Len(data) \div ECIES_ENC_BLK_SIZE) * ECIES_ENC_BLK_SIZE
        d == CbcDecryptOut(ctx.key, ctx.iv, Slice(data, 1, whole))
        all == (IF ctx.final_used THEN ctx.final ELSE <<>>) \o d
        rest == Slice(data, whole + 1, Len(data))
        hold == Len(rest) = 0
    IN [rc |-> 1,
        out |-> IF hold THEN Slice(all, 1, Len(all) - ECIES_ENC_BLK_SIZE) ELSE all,
        ctx |-> [ctx EXCEPT !.iv = IF whole = 0 THEN ctx.iv
                                   ELSE LastBlock(Slice(data, 1, whole)),
                            !.buf = rest,
                            !.final_used = hold,
                            !.final = IF hold
                                      THEN Slice(all, Len(all) - ECIES_ENC_BLK_SIZE + 1, Len(all))
                                      ELSE ctx.final]]

\* EVP_DecryptFinal: fails on a partial block or when no block was held
\* back; otherwise checks the padding of the held-back block and outputs
\* the block without it
EVP_DecryptFinal(ctx) ==
  IF Len(ctx.buf) # 0 \/ ~ctx.final_used THEN [rc |-> 0, out |-> <<>>]
  ELSE LET n == ctx.final[ECIES_ENC_BLK_SIZE]
       IN IF n = 0 \/ n > ECIES_ENC_BLK_SIZE THEN [rc |-> 0, out |-> <<>>]
          ELSE IF \E i \in 0..(n - 1) : ctx.final[ECIES_ENC_BLK_SIZE - i] # n
               THEN [rc |-> 0, out |-> <<>>]
               ELSE [rc |-> 1, out |-> Slice(ctx.final, 1, ECIES_ENC_BLK_SIZE - n)]


(***************************************************************************)
(* What a call leaves behind: how it ended (status "ok": returned,         *)
(* "throw": std::runtime_error(what), "abort": a failed assert), the bytes *)
(* returned, the primitives it invoked in order (trace), whether one of    *)
(* them reported failure, and the secret, private scalar and MAC it used.  *)
(***************************************************************************)
Outcome(status, what, out, trace, failed, secret, priv, mac) ==
  [status |-> status, what |-> what, out |-> out, trace |-> trace,
   failed |-> failed, secret |-> secret, priv |-> priv, mac |-> mac]

(***************************************************************************)
(* CKey::getECIESSecret                                                    *)
(***************************************************************************)
\* variant: the other key's private scalar is preferred to self's
SelectKeysOtherFirst(self, other) ==
  IF other.priv # 0 THEN [ok |-> TRUE, priv |-> other.priv, pub |-> self.pub]
  ELSE IF self.priv # 0 THEN [ok |-> TRUE, priv |-> self.priv, pub |-> other.pub]
  ELSE [ok |-> FALSE, priv |-> 0, pub |-> 0]

\* the choice of privkey/pubkey: self's private key when it has one, else
\* the other key's
SelectKeys(self, other) ==
  IF self.priv # 0 THEN [ok |-> TRUE, priv |-> self.priv, pub |-> other.pub]
  ELSE IF other.priv # 0 THEN [ok |-> TRUE, priv |-> other.priv, pub |-> self.pub]
  ELSE [ok |-> FALSE, priv |-> 0, pub |-> 0]

\* variant: only self's pkey is tested
KeyMissingSelfOnly(self, other) == ~self.pkey

\* !pkey || !otherKey.pkey
KeyMissing(self, other) == ~self.pkey \/ ~other.pkey

getECIESSecret(self, other, fault) ==
  IF KeyMissing(self, other)
  THEN Outcome("throw", "missing key", <<>>, <<>>, FALSE, <<>>, 0, <<>>)
  ELSE LET sel == SelectKeys(self, other)
       IN IF ~sel.ok
          THEN Outcome("throw", "no private key", <<>>, <<>>, FALSE, <<>>, 0, <<>>)
          ELSE IF fault = "ECDH_compute_key"
          THEN Outcome("throw", "ecdh key failed", <<>>, <<"ECDH_compute_key">>,
                       TRUE, <<>>, sel.priv, <<>>)
          ELSE LET key == ECDH_compute_key(sel.pub, sel.priv)
               IN Outcome("ok", "", key, <<"ECDH_compute_key">>, FALSE, key, sel.priv, <<>>)

(***************************************************************************)
(* makeHMAC                                                                *)
(***************************************************************************)
makeHMAC(secret, data, fault) ==
  IF fault = "HMAC_Init_ex"
  THEN [status |-> "throw", what |-> "init hmac", mac |-> <<>>, failed |-> TRUE,
        trace |-> <<"HMAC_CTX_init", "HMAC_Init_ex", "HMAC_CTX_cleanup">>]
  ELSE IF fault = "HMAC_Update"
  THEN [status |-> "throw", what |-> "update hmac", mac |-> <<>>, failed |-> TRUE,
        trace |-> <<"HMAC_CTX_init", "HMAC_Init_ex", "HMAC_Update", "HMAC_CTX_cleanup">>]
  ELSE IF fault = "HMAC_Final"
  THEN [status |-> "throw", what |-> "finalize hmac", mac |-> <<>>, failed |-> TRUE,
        trace |-> <<"HMAC_CTX_init", "HMAC_Init_ex", "HMAC_Update", "HMAC_Final",
                    "HMAC_CTX_cleanup">>]
  ELSE [status |-> "ok", what |-> "", mac |-> HmacDigest(secret, data), failed |-> FALSE,
        trace |-> <<"HMAC_CTX_init", "HMAC_Init_ex", "HMAC_Update", "HMAC_Final">>]

(***************************************************************************)
(* CKey::encryptECIES                                                      *)
(***************************************************************************)
\* a primitive that reports failure: EVP_EncryptUpdate and EVP_DecryptUpdate
\* return 0 with nothing written
FailedUpdate(ctx) == [rc |-> 0, out |-> <<>>, ctx |-> ctx]

\* the comparison the code makes on the result of EVP_EncryptUpdate and
\* EVP_EncryptFinal_ex
EncryptCallFailed(rc) == rc < 0

\* variant: the bytes written by the finalization are not counted
FinalLenUncounted(len, bytesWritten) == len

\* len after the finalization step: len += bytesWritten
FinalLen(len, bytesWritten) == len + bytesWritten

encryptECIES(self, other, plaintext, iv, fault, ndebug) ==
  LET s == getECIESSecret(self, other, fault)
      n == Len(plaintext)
  IN
  IF s.status # "ok" THEN s
  ELSE
  LET h == makeHMAC(s.secret, plaintext, fault)
      t1 == s.trace \o h.trace
  IN
  IF h.status # "ok"
  THEN Outcome("throw", h.what, <<>>, t1, TRUE, s.secret, s.priv, <<>>)
  ELSE IF fault = "RAND_bytes"
  THEN Outcome("throw", "insufficient entropy", <<>>, t1 \o <<"RAND_bytes">>, TRUE,
               s.secret, s.priv, h.mac)
  ELSE
  LET t2 == t1 \o <<"RAND_bytes", "EVP_CIPHER_CTX_init", "EVP_EncryptInit_ex">> IN
  IF fault = "EVP_EncryptInit_ex"
  THEN Outcome("throw", "init cipher ctx", <<>>, t2 \o <<"EVP_CIPHER_CTX_cleanup">>, TRUE,
               s.secret, s.priv, h.mac)
  ELSE
  LET ctx0 == NewCipherCtx(s.secret, iv)
      capacity == n + ECIES_HMAC_SIZE + ECIES_ENC_KEY_SIZE + ECIES_ENC_BLK_SIZE
      len0 == ECIES_ENC_BLK_SIZE
      \* encrypt/output HMAC
      u1 == IF fault = "EVP_EncryptUpdate_hmac" THEN FailedUpdate(ctx0)
            ELSE EVP_EncryptUpdate(ctx0, h.mac)
      t3 == t2 \o <<"EVP_EncryptUpdate">>
  IN
  IF EncryptCallFailed(u1.rc)
  THEN Outcome("throw", "", <<>>, t3 \o <<"EVP_CIPHER_CTX_cleanup">>, TRUE,
               s.secret, s.priv, h.mac)
  ELSE
  LET len1 == len0 + Len(u1.out)
      \* encrypt/output plaintext
      u2 == IF fault = "EVP_EncryptUpdate_text" THEN FailedUpdate(u1.ctx)
            ELSE EVP_EncryptUpdate(u1.ctx, plaintext)
      t4 == t3 \o <<"EVP_EncryptUpdate">>
  IN
  IF EncryptCallFailed(u2.rc)
  THEN Outcome("throw", "", <<>>, t4 \o <<"EVP_CIPHER_CTX_cleanup">>, TRUE,
               s.secret, s.priv, h.mac)
  ELSE
  LET len2 == len1 + Len(u2.out)
      \* finalize; a failing EVP_EncryptFinal_ex leaves bytesWritten as passed in
      f == IF fault = "EVP_EncryptFinal_ex" THEN [rc |-> 0, out |-> <<>>]
           ELSE EVP_EncryptFinal_ex(u2.ctx)
      bytesWritten == IF f.rc = 1 THEN Len(f.out) ELSE capacity - len2
      t5 == t4 \o <<"EVP_EncryptFinal_ex">>
  IN
  IF EncryptCallFailed(f.rc)
  THEN Outcome("throw", "", <<>>, t5 \o <<"EVP_CIPHER_CTX_cleanup">>, TRUE,
               s.secret, s.priv, h.mac)
  ELSE
  LET len == FinalLen(len2, bytesWritten)
      written == iv \o u1.out \o u2.out \o f.out
      buffer == written \o Zeros(capacity - Len(written))
      failed == u1.rc # 1 \/ u2.rc # 1 \/ f.rc # 1
      assertsHold == /\ len <= n + ECIES_HMAC_SIZE + 2 * ECIES_ENC_BLK_SIZE
                     /\ len >= n + ECIES_HMAC_SIZE + ECIES_ENC_BLK_SIZE
  IN
  IF ~assertsHold /\ ~ndebug
  THEN Outcome("abort", "assert", <<>>, t5, failed, s.secret, s.priv, h.mac)
  ELSE Outcome("ok", "", Slice(buffer, 1, len), t5 \o <<"EVP_CIPHER_CTX_cleanup">>,
               failed, s.secret, s.priv, h.mac)

(***************************************************************************)
(* CKey::decryptECIES                                                      *)
(***************************************************************************)
\* variant: the minimum is what the first EVP_DecryptUpdate consumes
TooShortFirstChunk(ciphertext) ==
  Len(ciphertext) < ECIES_ENC_BLK_SIZE + ECIES_HMAC_SIZE + 1

\* minimum ciphertext = IV + HMAC + 1 block
TooShort(ciphertext) ==
  Len(ciphertext) < (2 * ECIES_ENC_BLK_SIZE) + ECIES_HMAC_SIZE

\* variant: exactly the MAC is handed to the first EVP_DecryptUpdate
HmacChunkLenExact == ECIES_HMAC_SIZE

\* the number of bytes handed to the first EVP_DecryptUpdate: one more than
\* the MAC, so that the MAC's last block is output and not held back
HmacChunkLen == ECIES_HMAC_SIZE + 1

\* variant: the comparison is dropped
MacMatchesAlways(hmac, expected) == TRUE

\* hmac != makeHMAC(secret, plaintext), negated
MacMatches(hmac, expected) == hmac = expected

\* variant: the test encryptECIES makes on its cipher calls
PaddingFailedNegative(rc) == rc < 0

\* the test on the result of EVP_DecryptFinal
PaddingFailed(rc) == rc # 1

\* decryptECIES from "extract IV" on: s is the outcome of getECIESSecret and
\* t1 the primitives invoked so far
decryptEnvelope(s, t1, ciphertext, fault) ==
  LET iv == Slice(ciphertext, 1, ECIES_ENC_BLK_SIZE)
      t2 == t1 \o <<"EVP_CIPHER_CTX_init", "EVP_DecryptInit_ex">>
  IN
  IF fault = "EVP_DecryptInit_ex"
  THEN Outcome("throw", "unable to init cipher", <<>>, t2 \o <<"EVP_CIPHER_CTX_cleanup">>,
               TRUE, s.secret, s.priv, <<>>)
  ELSE
  LET ctx0 == NewCipherCtx(s.secret, iv)
      \* decrypt mac
      u1 == IF fault = "EVP_DecryptUpdate_hmac" THEN FailedUpdate(ctx0)
            ELSE EVP_DecryptUpdate(ctx0, Slice(ciphertext, ECIES_ENC_BLK_SIZE + 1,
                                               ECIES_ENC_BLK_SIZE + HmacChunkLen))
      t3 == t2 \o <<"EVP_DecryptUpdate">>
  IN
  IF u1.rc # 1 \/ Len(u1.out) # ECIES_HMAC_SIZE
  THEN Outcome("throw", "unable to extract hmac", <<>>, t3 \o <<"EVP_CIPHER_CTX_cleanup">>,
               u1.rc # 1, s.secret, s.priv, <<>>)
  ELSE
  LET hmac == u1.out
      \* decrypt plaintext (after IV and encrypted mac)
      u2 == IF fault = "EVP_DecryptUpdate_text" THEN FailedUpdate(u1.ctx)
            ELSE EVP_DecryptUpdate(u1.ctx, Slice(ciphertext,
                                                 ECIES_ENC_BLK_SIZE + HmacChunkLen + 1,
                                                 Len(ciphertext)))
      t4 == t3 \o <<"EVP_DecryptUpdate">>
  IN
  IF u2.rc # 1
  THEN Outcome("throw", "unable to extract plaintext", <<>>,
               t4 \o <<"EVP_CIPHER_CTX_cleanup">>, TRUE, s.secret, s.priv, hmac)
  ELSE
  LET f == EVP_DecryptFinal(u2.ctx)
      t5 == t4 \o <<"EVP_DecryptFinal">>
  IN
  IF PaddingFailed(f.rc)
  THEN Outcome("throw", "plaintext had bad padding", <<>>,
               t5 \o <<"EVP_CIPHER_CTX_cleanup">>, FALSE, s.secret, s.priv, hmac)
  ELSE
  LET plaintext == u2.out \o f.out
      m == makeHMAC(s.secret, plaintext, fault)
      t6 == t5 \o m.trace
  IN
  IF m.status # "ok"
  THEN Outcome("throw", m.what, <<>>, t6, TRUE, s.secret, s.priv, hmac)
  ELSE IF ~MacMatches(hmac, m.mac)
  THEN Outcome("throw", "plaintext had bad hmac", <<>>,
               t6 \o <<"compare_hmac", "EVP_CIPHER_CTX_cleanup">>, FALSE,
               s.secret, s.priv, hmac)
  ELSE Outcome("ok", "", plaintext, t6 \o <<"compare_hmac", "EVP_CIPHER_CTX_cleanup">>,
               FALSE, s.secret, s.priv, hmac)

\* variant: the cipher is initialised before the length is looked at
decryptECIESLateCheck(self, other, ciphertext, fault) ==
  LET s == getECIESSecret(self, other, fault) IN
  IF s.status # "ok" THEN s
  ELSE IF TooShort(ciphertext)
  THEN Outcome("throw", "ciphertext too short", <<>>,
               s.trace \o <<"EVP_CIPHER_CTX_init", "EVP_DecryptInit_ex", "check_length",
                            "EVP_CIPHER_CTX_cleanup">>,
               FALSE, s.secret, s.priv, <<>>)
  ELSE decryptEnvelope(s, s.trace, ciphertext, fault)

decryptECIES(self, other, ciphertext, fault) ==
  LET s == getECIESSecret(self, other, fault) IN
  IF s.status # "ok" THEN s
  ELSE IF TooShort(ciphertext)
  THEN Outcome("throw", "ciphertext too short", <<>>, s.trace \o <<"check_length">>, FALSE,
               s.secret, s.priv, <<>>)
  ELSE decryptEnvelope(s, s.trace \o <<"check_length">>, ciphertext, fault)

(***************************************************************************)
(* The state.  The operations keep no state between calls, so a behaviour  *)
(* follows one message, as the body of checkECIES's loop does: a message   *)
(* is encrypted, the ciphertext travels (and may be cut short or have one  *)
(* bit inverted on the way), and is decrypted.                             *)
(*   pc    position in that sequence: "start", "sent", "done"              *)
(*   wire  the ciphertext in flight, with the keys and plaintext it was    *)
(*         made from and what happened to it on the way (mod)              *)
(*   call  the last call: operation, arguments, injected primitive         *)
(*         failure and outcome                                             *)
(***************************************************************************)
VARIABLES pc, wire, call

vars == <<pc, wire, call>>

NoOutcome == Outcome("none", "", <<>>, <<>>, FALSE, <<>>, 0, <<>>)
NoWire == [ct |-> <<>>, self |-> NullKey, other |-> NullKey, pt |-> <<>>, mod |-> "empty"]
NoCall == [op |-> "none", self |-> NullKey, other |-> NullKey, input |-> <<>>,
           fault |-> "none", res |-> NoOutcome]

\* plaintext lengths: those next to a cipher-block boundary
PlainLens == {n \in 0..MaxLen : n % ECIES_ENC_BLK_SIZE \in {0, 1, ECIES_ENC_BLK_SIZE - 1}}

\* messages: a varied byte pattern, and bytes that all equal the block size
\* (a block of them reads as a whole block of padding)
Plaintexts ==
  {[i \in 1..n |-> (65 + 31 * i) % 256] : n \in PlainLens}
    \cup {[i \in 1..n |-> ECIES_ENC_BLK_SIZE] : n \in PlainLens}

\* values RAND_bytes may deliver for the IV
IVs == {[i \in 1..ECIES_ENC_BLK_SIZE |-> (17 + 3 * i) % 256],
        [i \in 1..ECIES_ENC_BLK_SIZE |-> (200 + 7 * i) % 256]}

\* primitives that may report failure during a call
EncryptFaults == {"none", "ECDH_compute_key", "HMAC_Init_ex", "HMAC_Update", "HMAC_Final",
                  "RAND_bytes", "EVP_EncryptInit_ex", "EVP_EncryptUpdate_hmac",
                  "EVP_EncryptUpdate_text", "EVP_EncryptFinal_ex"}
DecryptFaults == {"none", "ECDH_compute_key", "EVP_DecryptInit_ex", "EVP_DecryptUpdate_hmac",
                  "EVP_DecryptUpdate_text", "HMAC_Init_ex", "HMAC_Update", "HMAC_Final"}
SecretFaults == {"none", "ECDH_compute_key"}

\* lengths a ciphertext may be cut to: nothing, and the lengths around
\* IV + MAC and around IV + MAC + one block
CutLens == {0} \cup {ECIES_ENC_BLK_SIZE + ECIES_HMAC_SIZE + d : d \in -1..1}
               \cup {2 * ECIES_ENC_BLK_SIZE + ECIES_HMAC_SIZE + d : d \in -1..1}

Init == pc = "start" /\ wire = NoWire /\ call = NoCall

\* self.getECIESSecret(other)
SecretCall(KS, FS) ==
  /\ pc = "start"
  /\ \E self \in KS, other \in KS, fault \in FS :
       call' = [op |-> "getECIESSecret", self |-> self, other |-> other, input |-> <<>>,
                fault |-> fault, res |-> getECIESSecret(self, other, fault)]
  /\ pc' = "done"
  /\ UNCHANGED wire

\* self.encryptECIES(other, plaintext); the ciphertext returned is sent
EncryptCall(KS, FS) ==
  /\ pc = "start"
  /\ \E self \in KS, other \in KS, plaintext \in Plaintexts, iv \in IVs,
        fault \in FS, ndebug \in BOOLEAN :
       \E r \in {encryptECIES(self, other, plaintext, iv, fault, ndebug)} :
         /\ call' = [op |-> "encryptECIES", self |-> self, other |-> other,
                     input |-> plaintext, fault |-> fault, res |-> r]
         /\ IF r.status = "ok"
            THEN /\ wire' = [ct |-> r.out, self |-> self, other |-> other, pt |-> plaintext,
                             mod |-> IF r.failed THEN "garbled" ELSE "none"]
                 /\ pc' = "sent"
            ELSE /\ wire' = wire
                 /\ pc' = "done"

\* the ciphertext in flight is cut short
Truncate ==
  /\ pc = "sent" /\ wire.mod = "none"
  /\ \E n \in CutLens :
       /\ n < Len(wire.ct)
       /\ wire' = [wire EXCEPT !.ct = Slice(wire.ct, 1, n), !.mod = "cut"]
  /\ UNCHANGED <<pc, call>>

\* one bit of the ciphertext in flight is inverted
Tamper ==
  /\ pc = "sent" /\ wire.mod = "none"
  /\ \E bit \in 0..(8 * Len(wire.ct) - 1) :
       wire' = [wire EXCEPT !.ct = FlipBit(wire.ct, bit), !.mod = "flipped"]
  /\ UNCHANGED <<pc, call>>

\* self.decryptECIES(other, ciphertext) on the ciphertext in flight
DecryptCall(KS, FS) ==
  /\ pc = "sent"
  /\ \E self \in KS, other \in KS, fault \in FS :
       call' = [op |-> "decryptECIES", self |-> self, other |-> other, input |-> wire.ct,
                fault |-> fault, res |-> decryptECIES(self, other, wire.ct, fault)]
  /\ pc' = "done"
  /\ UNCHANGED wire

(***************************************************************************)
(* Spec: every key (absent, public-only, private), every primitive         *)
(* failure, truncated ciphertexts.                                         *)
(***************************************************************************)
GetSecret == SecretCall(Keys, SecretFaults)
Encrypt == EncryptCall(Keys, EncryptFaults)
Decrypt == DecryptCall(Keys, DecryptFaults)

Next == GetSecret \/ Encrypt \/ Truncate \/ Decrypt

Spec == Init /\ [][Next]_vars

(***************************************************************************)
(* SpecTamper: the sender holds a private key and the recipient's public   *)
(* key, as in checkECIES; no primitive fails; any one bit of the           *)
(* ciphertext may be inverted on the way.                                  *)
(***************************************************************************)
EncryptT == EncryptCall({PrivKey(2), PubKey(3)}, {"none"})
DecryptT == DecryptCall({PrivKey(3), PubKey(2)}, {"none"})

NextTamper == EncryptT \/ Tamper \/ DecryptT

SpecTamper == Init /\ [][NextTamper]_vars


(***************************************************************************)
(* Vocabulary of the properties.                                           *)
(***************************************************************************)
Has(trace, e) == \E i \in DOMAIN trace : trace[i] = e
Count(trace, e) == Cardinality({i \in DOMAIN trace : trace[i] = e})
\* every e of es in trace comes after the first occurrence of `first`
AllAfter(trace, es, first) ==
  \A i \in DOMAIN trace :
    trace[i] \in es => \E j \in 1..(i - 1) : trace[j] = first

HmacEvents == {"HMAC_CTX_init", "HMAC_Init_ex", "HMAC_Update", "HMAC_Final"}
CipherEvents == {"EVP_CIPHER_CTX_init", "EVP_EncryptInit_ex", "EVP_EncryptUpdate",
                 "EVP_EncryptFinal_ex", "EVP_DecryptInit_ex", "EVP_DecryptUpdate",
                 "EVP_DecryptFinal"}
PrimitiveEvents == HmacEvents \cup CipherEvents \cup {"ECDH_compute_key", "RAND_bytes"}

\* contexts a call initialised and did not clean up
Leaked(trace) ==
  {c \in {<<"HMAC_CTX_init", "HMAC_CTX_cleanup">>,
          <<"EVP_CIPHER_CTX_init", "EVP_CIPHER_CTX_cleanup">>} :
     Count(trace, c[1]) > Count(trace, c[2])}

MissingKeyError == {"missing key", "no private key"}
Usable(a, b) == a.pkey /\ b.pkey /\ (a.priv # 0 \/ b.priv # 0)

MinEnvelope == 2 * ECIES_ENC_BLK_SIZE + ECIES_HMAC_SIZE

\* what a ciphertext holds under a secret, read off the wire layout directly:
\* IV, then CBC-encrypted MAC, plaintext and padding; d is the decryption of
\* everything after the IV
OpenedFrom(d, aligned) ==
  LET n == d[Len(d)]
      valid == /\ aligned
               /\ n \in 1..ECIES_ENC_BLK_SIZE
               /\ \A i \in 0..(n - 1) : d[Len(d) - i] = n
  IN [valid |-> valid,
      mac |-> Slice(d, 1, ECIES_HMAC_SIZE),
      text |-> IF valid THEN Slice(d, ECIES_HMAC_SIZE + 1, Len(d) - n) ELSE <<>>]

Opened(secret, ct) ==
  LET whole == ECIES_ENC_BLK_SIZE * (Len(ct) \div ECIES_ENC_BLK_SIZE) IN
  CHOOSE o \in {OpenedFrom(d, Len(ct) = whole) :
                  d \in {CbcDecryptOut(secret, Slice(ct, 1, ECIES_ENC_BLK_SIZE),
                                       Slice(ct, ECIES_ENC_BLK_SIZE + 1, whole))}} : TRUE

Decrypted == call.op = "decryptECIES"
Encrypted == call.op = "encryptECIES"
\* the ciphertext decrypted is the one encryptECIES returned, untouched
Intact == Decrypted /\ wire.mod = "none" /\ call.input = wire.ct

(***************************************************************************)
(* C1  Round trip: decrypting with (B, A) what encryptECIES made with      *)
(* (A, B) from P succeeds and returns exactly P (no primitive failing).    *)
(***************************************************************************)
C1_RoundTrip ==
  (Intact /\ call.self = wire.other /\ call.other = wire.self /\ call.fault = "none")
    => (call.res.status = "ok" /\ call.res.out = wire.pt)

C1_Witness ==
  /\ Intact /\ call.self = wire.other /\ call.other = wire.self /\ call.fault = "none"
  /\ wire.self.priv # 0 /\ wire.other.priv = 0
  /\ Len(wire.pt) = ECIES_ENC_BLK_SIZE /\ wire.pt[1] = ECIES_ENC_BLK_SIZE
  /\ call.res.out = wire.pt

(***************************************************************************)
(* C2  Tamper detection: a ciphertext with one bit inverted, decrypted     *)
(* with keys that give the secret it was encrypted under, is rejected with *)
(* "plaintext had bad hmac" or "plaintext had bad padding".                *)
(***************************************************************************)
C2_TamperDetected ==
  (Decrypted /\ wire.mod = "flipped" /\ call.input = wire.ct
     /\ call.res.secret = getECIESSecret(wire.self, wire.other, "none").secret)
    => (/\ call.res.status = "throw"
        /\ call.res.what \in {"plaintext had bad hmac", "plaintext had bad padding"})

\* a flipped bit that leaves the padding valid and is caught by the MAC
C2_Witness ==
  /\ Decrypted /\ wire.mod = "flipped" /\ call.input = wire.ct
  /\ call.res.secret = getECIESSecret(wire.self, wire.other, "none").secret
  /\ Len(wire.pt) = ECIES_ENC_BLK_SIZE
  /\ call.res.what = "plaintext had bad hmac"

(***************************************************************************)
(* C3  Ciphertext length.  As claimed: 16 + 16*ceil((32+n)/16), 48 bytes   *)
(* for the empty plaintext.  As the code has it: the padding always adds   *)
(* at least one byte, so 16 + 16*(floor((32+n)/16) + 1), 64 bytes for the  *)
(* empty plaintext, which decrypts to the empty plaintext.                 *)
(***************************************************************************)
C3_LengthAsClaimed ==
  (Encrypted /\ call.res.status = "ok" /\ ~call.res.failed)
    => Len(call.res.out)
         = 16 + 16 * ((32 + Len(call.input) + 15) \div 16)

C3_Length ==
  /\ (Encrypted /\ call.res.status = "ok" /\ ~call.res.failed)
       => /\ Len(call.res.out)
               = ECIES_ENC_BLK_SIZE
                 + ECIES_ENC_BLK_SIZE
                   * (((ECIES_HMAC_SIZE + Len(call.input)) \div ECIES_ENC_BLK_SIZE) + 1)
          /\ (Len(call.input) = 0 => Len(call.res.out) = 64)
  /\ (Intact /\ call.self = wire.other /\ call.other = wire.self /\ call.fault = "none"
        /\ wire.pt = <<>>)
       => (Len(call.input) = 64 /\ call.res.status = "ok" /\ call.res.out = <<>>)

C3_Witness ==
  /\ Encrypted /\ call.res.status = "ok" /\ ~call.res.failed
  /\ call.input = <<>> /\ Len(call.res.out) = 64

(***************************************************************************)
(* C4  Minimum-length rejection: with keys that yield a secret, a          *)
(* ciphertext shorter than 2*blockSize + MACSize is rejected with          *)
(* "ciphertext too short" and no cipher or HMAC primitive is invoked.      *)
(***************************************************************************)
C4_MinLength ==
  (Decrypted /\ call.res.secret # <<>> /\ Len(call.input) < MinEnvelope)
    => (/\ call.res.status = "throw"
        /\ call.res.what = "ciphertext too short"
        /\ \A e \in HmacEvents \cup CipherEvents : ~Has(call.res.trace, e))

C4_Witness ==
  /\ Decrypted /\ call.res.secret # <<>>
  /\ Len(call.input) = MinEnvelope - 1
  /\ call.res.what = "ciphertext too short"

(***************************************************************************)
(* C5  Scoped release: no call leaves a context it initialised without     *)
(* cleaning it up.                                                         *)
(***************************************************************************)
C5_NoContextLeft ==
  call.res.status \in {"ok", "throw"} => Leaked(call.res.trace) = {}

(***************************************************************************)
(* C6  No swallowed errors: a call one of whose primitives reported        *)
(* failure ends with an error to its caller.                               *)
(***************************************************************************)
C6_FailurePropagates ==
  call.res.failed => call.res.status = "throw"

(***************************************************************************)
(* C7  Symmetry: with at least one private scalar, A.getECIESSecret(B) and *)
(* B.getECIESSecret(A) return the same 32-byte secret, and self's private  *)
(* scalar is the one used when self has one.                               *)
(***************************************************************************)
C7_Symmetric ==
  (call.op = "getECIESSecret" /\ call.fault = "none" /\ Usable(call.self, call.other))
    => (/\ call.res.status = "ok"
        /\ Len(call.res.out) = 32
        /\ call.res.out = getECIESSecret(call.other, call.self, "none").out
        /\ (call.self.priv # 0 => call.res.priv = call.self.priv))

C7_Witness ==
  /\ call.op = "getECIESSecret" /\ call.fault = "none"
  /\ call.self.priv # 0 /\ call.other.priv # 0 /\ call.self.priv # call.other.priv
  /\ call.res.status = "ok" /\ call.res.priv = call.self.priv

(***************************************************************************)
(* C8  Missing-key rejection: a call fails with "missing key" or "no       *)
(* private key" exactly when a key is absent or neither holds a private    *)
(* scalar; then no primitive was invoked and nothing is returned.          *)
(***************************************************************************)
C8_MissingKey ==
  call.op # "none"
    => (/\ (call.res.status = "throw" /\ call.res.what \in MissingKeyError)
              <=> ~Usable(call.self, call.other)
        /\ ~Usable(call.self, call.other)
              => (call.res.trace = <<>> /\ call.res.out = <<>> /\ call.res.secret = <<>>))

C8_Witness ==
  /\ Encrypted
  /\ call.self.pkey /\ call.other.pkey /\ call.self.priv = 0 /\ call.other.priv = 0
  /\ call.res.what = "no private key"

(***************************************************************************)
(* C9  Decrypt validation order: the padding is validated (cipher          *)
(* finalization) before the MAC is recomputed and compared; bad padding    *)
(* ends the call without any HMAC computation; "plaintext had bad hmac"    *)
(* only with valid padding and a MAC that differs from the HMAC of the     *)
(* recovered plaintext; a returned plaintext carries its MAC.              *)
(***************************************************************************)
C9_ValidationOrder ==
  Decrypted
    => (/\ AllAfter(call.res.trace, HmacEvents \cup {"compare_hmac"}, "EVP_DecryptFinal")
        /\ call.res.what = "plaintext had bad padding"
             => (/\ \A e \in HmacEvents \cup {"compare_hmac"} : ~Has(call.res.trace, e)
                 /\ ~Opened(call.res.secret, call.input).valid)
        /\ call.res.what = "plaintext had bad hmac"
             => \E o \in {Opened(call.res.secret, call.input)} :
                  /\ o.valid
                  /\ call.res.mac = o.mac
                  /\ call.res.mac # HmacDigest(call.res.secret, o.text)
        /\ call.res.status = "ok"
             => (/\ Has(call.res.trace, "compare_hmac")
                 /\ call.res.mac = Opened(call.res.secret, call.input).mac
                 /\ call.res.mac = HmacDigest(call.res.secret, call.res.out)))

\* a ciphertext whose padding is valid under the secret used and whose MAC
\* does not fit: bad hmac, after the finalization
C9_Witness ==
  /\ Decrypted /\ wire.mod = "flipped"
  /\ call.res.what = "plaintext had bad hmac"
  /\ Has(call.res.trace, "EVP_DecryptFinal")
  /\ Len(wire.pt) = 1

(***************************************************************************)
(* C10  Position of the length check.  As claimed: before every            *)
(* cryptographic primitive, key derivation included, so that a too-short   *)
(* ciphertext is rejected as too short whatever the keys.  As the code has *)
(* it: after the key derivation and before every cipher and HMAC           *)
(* primitive; a too-short ciphertext is rejected as too short when the     *)
(* derivation succeeds, and with the derivation's error otherwise.         *)
(***************************************************************************)
C10_LengthCheckFirst ==
  Decrypted
    => (/\ AllAfter(call.res.trace, PrimitiveEvents, "check_length")
        /\ Len(call.input) < MinEnvelope
             => (call.res.status = "throw" /\ call.res.what = "ciphertext too short"))

C10_LengthCheckAfterDerivation ==
  Decrypted
    => (/\ AllAfter(call.res.trace, HmacEvents \cup CipherEvents, "check_length")
        /\ AllAfter(call.res.trace, {"check_length"}, "ECDH_compute_key")
        /\ Len(call.input) < MinEnvelope
             => (/\ call.res.status = "throw"
                 /\ call.res.what
                      = (IF ~call.self.pkey \/ ~call.other.pkey THEN "missing key"
                         ELSE IF call.self.priv = 0 /\ call.other.priv = 0
                           THEN "no private key"
                         ELSE IF call.fault = "ECDH_compute_key" THEN "ecdh key failed"
                         ELSE "ciphertext too short")))

C10_Witness ==
  /\ Decrypted /\ wire.mod = "cut" /\ Len(call.input) < MinEnvelope
  /\ call.self.pkey /\ call.other.pkey /\ call.self.priv = 0 /\ call.other.priv = 0
  /\ call.res.what = "no private key"

=============================================================================
